---- MODULE Spec2Model ----
(***************************************************************************)
(* Model of emtm-verify (src/src/verifier.rs): Verifier::get_sign_hash,    *)
(* Verifier::verify and Verifier::api_request.                             *)
(*                                                                         *)
(* Strings are TLC strings (\o is concatenation).  Where the code works on *)
(* the characters of a string (base64, the three replace() calls) the      *)
(* string is a sequence of one-character strings, flattened by Str.        *)
(* Option<T> is a sequence of length 0 (None) or 1 (Some).                 *)
(***************************************************************************)
EXTENDS Integers, Sequences, FiniteSets, TLC

VARIABLES
    config,         \* Verifier { app_id, app_key }
    pc,             \* per call: position inside verify / its future
    input,          \* per call: image_data, institute, student_id
    img,            \* per call: the decoded (possibly resized) image
    base64_image,   \* per call: base64::encode(&jpeg_data)
    signed_params,  \* per call: params as passed to get_sign_hash
    to_hash,        \* per call: the string get_sign_hash hashed
    params,         \* per call: params after the form was built
    form,           \* per call: RequestForm handed to api_request
    wire,           \* per call: the forms sent to OCR_URL, in order
    response,       \* per call: Option of what the remote exchange produced
    api_response,   \* per call: Option of the body text api_request returned
    scanned,        \* per call: whether the item_list loop ran
    outcome,        \* per call: the future's result
    stages,         \* per call: the stages entered, in order
    map,            \* hash example: the BTreeMap being built
    inserted,       \* hash example: the keys in insertion order
    hashed,         \* hash example: the strings hashed by successive calls
    signs           \* hash example: the signatures returned

vars == << config, pc, input, img, base64_image, signed_params, to_hash, params,
           form, wire, response, api_response, scanned, outcome, stages,
           map, inserted, hashed, signs >>

callVars == << pc, input, img, base64_image, signed_params, to_hash, params,
               form, wire, response, api_response, scanned, outcome, stages >>

exampleVars == << map, inserted, hashed, signs >>

-----------------------------------------------------------------------------
(* Bounds of the model *)

MaxItems == 2       \* longest item_list in a response
MaxInserts == 4     \* inserts performed by the hash example
MaxSigns == 2       \* repeated get_sign_hash calls in the hash example
NumCalls == 2       \* concurrent verify calls

-----------------------------------------------------------------------------
(* Strings *)

None == << >>
Some(x) == << x >>

RECURSIVE Str(_)
Str(chars) == IF chars = << >> THEN "" ELSE Head(chars) \o Str(Tail(chars))

RECURSIVE Join(_, _)
Join(strs, sep) ==
    IF strs = << >> THEN ""
    ELSE IF Len(strs) = 1 THEN strs[1]
    ELSE strs[1] \o sep \o Join(Tail(strs), sep)

DigitChar(d) == <<"0", "1", "2", "3", "4", "5", "6", "7", "8", "9">>[d + 1]

RECURSIVE to_string(_)
to_string(n) ==
    IF n < 10 THEN DigitChar(n) ELSE to_string(n \div 10) \o DigitChar(n % 10)

(* The bytes of the map keys: &str is ordered by its bytes. *)
KeyBytes(k) ==
    CASE k = "app_id"     -> << 97, 112, 112, 95, 105, 100 >>
      [] k = "app_key"    -> << 97, 112, 112, 95, 107, 101, 121 >>
      [] k = "image"      -> << 105, 109, 97, 103, 101 >>
      [] k = "nonce_str"  -> << 110, 111, 110, 99, 101, 95, 115, 116, 114 >>
      [] k = "time_stamp" -> << 116, 105, 109, 101, 95, 115, 116, 97, 109, 112 >>

RECURSIVE BytesLess(_, _)
BytesLess(a, b) ==
    IF b = << >> THEN FALSE
    ELSE IF a = << >> THEN TRUE
    ELSE IF Head(a) # Head(b) THEN Head(a) < Head(b)
    ELSE BytesLess(Tail(a), Tail(b))

KeyLess(j, k) == BytesLess(KeyBytes(j), KeyBytes(k))

-----------------------------------------------------------------------------
(* BTreeMap<&str, String>: the entries in ascending key order *)

Keys(m) == { m[i].key : i \in 1..Len(m) }

Get(m, k) == (CHOOSE i \in 1..Len(m) : m[i].key = k)

(* Faulty variant: a map that keeps insertion order *)
BTreeInsertAppend(m, k, v) == Append(m, [key |-> k, value |-> v])

BTreeInsert(m, k, v) ==
    IF k \in Keys(m)
    THEN [i \in 1..Len(m) |-> IF m[i].key = k THEN [key |-> k, value |-> v] ELSE m[i]]
    ELSE LET below == SelectSeq(m, LAMBDA e : KeyLess(e.key, k))
             above == SelectSeq(m, LAMBDA e : KeyLess(k, e.key))
         IN  below \o << [key |-> k, value |-> v] >> \o above

BTreeRemove(m, k) == SelectSeq(m, LAMBDA e : e.key # k)

BTreeValue(m, k) == m[Get(m, k)].value

-----------------------------------------------------------------------------
(* get_sign_hash *)

(* Md5 followed by hex::encode and to_ascii_uppercase.  The digest is kept  *)
(* symbolic: a string determined by, and distinct from, the string hashed. *)
Md5HexUpper(s) == "MD5<" \o s \o ">"

Encoded(m) == [i \in 1..Len(m) |-> Join(<< m[i].key, m[i].value >>, "=")]

ToHash(app_key, m) ==
    Join(Append(Encoded(m), Join(<< "app_key", app_key >>, "=")), "&")

get_sign_hash(app_key, m) == Md5HexUpper(ToHash(app_key, m))

-----------------------------------------------------------------------------
(* ImagePreparer: load_from_memory, resize, JPEGEncoder, base64, escaping *)

SizeLimit == 1048576
ScaleBase == 1000000

(* Faulty variant: the threshold compared with >= *)
NeedsResizeAtLimit(len) == len >= SizeLimit

NeedsResize(len) == len > SizeLimit

(* (d as f64 / (len as f64 / 1000000.0).sqrt()) as u32, in exact arithmetic:  *)
(* the largest n with n * n * len <= d * d * 1000000.                         *)
Scaled(d, len) ==
    LET q == (d * d * ScaleBase) \div len
    IN  CHOOSE n \in 0..d : n * n <= q /\ (n + 1) * (n + 1) > q

Resize(image) ==
    [width   |-> Scaled(image.width, image.len),
     height  |-> Scaled(image.height, image.len),
     resized |-> TRUE]

Decoded(image) ==
    IF NeedsResize(image.len)
    THEN Resize(image)
    ELSE [width |-> image.width, height |-> image.height, resized |-> FALSE]

B64Alphabet ==
    << "A", "B", "C", "D", "E", "F", "G", "H", "I", "J", "K", "L", "M",
       "N", "O", "P", "Q", "R", "S", "T", "U", "V", "W", "X", "Y", "Z",
       "a", "b", "c", "d", "e", "f", "g", "h", "i", "j", "k", "l", "m",
       "n", "o", "p", "q", "r", "s", "t", "u", "v", "w", "x", "y", "z",
       "0", "1", "2", "3", "4", "5", "6", "7", "8", "9", "+", "/" >>

B64(n) == B64Alphabet[n + 1]

Base64Group(g) ==
    LET b1 == g[1]
        b2 == IF Len(g) >= 2 THEN g[2] ELSE 0
        b3 == IF Len(g) >= 3 THEN g[3] ELSE 0
    IN  << B64(b1 \div 4),
           B64((b1 % 4) * 16 + b2 \div 16),
           IF Len(g) >= 2 THEN B64((b2 % 16) * 4 + b3 \div 64) ELSE "=",
           IF Len(g) >= 3 THEN B64(b3 % 64) ELSE "=" >>

RECURSIVE Base64Encode(_)
Base64Encode(bytes) ==
    IF bytes = << >> THEN << >>
    ELSE IF Len(bytes) <= 3 THEN Base64Group(bytes)
    ELSE Base64Group(SubSeq(bytes, 1, 3)) \o Base64Encode(SubSeq(bytes, 4, Len(bytes)))

RECURSIVE Replace(_, _, _)
Replace(chars, from, to) ==
    IF chars = << >> THEN << >>
    ELSE (IF Head(chars) = from THEN to ELSE << Head(chars) >>)
         \o Replace(Tail(chars), from, to)

UrlEncode(chars) ==
    Replace(Replace(Replace(chars, "=", << "%", "3", "D" >>),
                    "+", << "%", "2", "B" >>),
            "/", << "%", "2", "F" >>)

-----------------------------------------------------------------------------
(* RequestSigner: the params map and the RequestForm *)

(* Faulty variant: the secret key inserted into params *)
BuildParamsWithKey(app_id, app_key, time_stamp, nonce_str, b64) ==
    BTreeInsert(
      BTreeInsert(
        BTreeInsert(
          BTreeInsert(
            BTreeInsert(<< >>, "app_id", to_string(app_id)),
            "time_stamp", to_string(time_stamp)),
          "nonce_str", nonce_str),
        "image", Str(UrlEncode(b64))),
      "app_key", app_key)

BuildParams(app_id, app_key, time_stamp, nonce_str, b64) ==
    BTreeInsert(
      BTreeInsert(
        BTreeInsert(
          BTreeInsert(<< >>, "app_id", to_string(app_id)),
          "time_stamp", to_string(time_stamp)),
        "nonce_str", nonce_str),
      "image", Str(UrlEncode(b64)))

(* Faulty variant: the image field taken from params *)
BuildFormFromParams(p, b64, md5_hash) ==
    [app_id     |-> BTreeValue(p, "app_id"),
     time_stamp |-> BTreeValue(p, "time_stamp"),
     nonce_str  |-> BTreeValue(p, "nonce_str"),
     image      |-> BTreeValue(p, "image"),
     sign       |-> md5_hash]

BuildForm(p, b64, md5_hash) ==
    [app_id     |-> BTreeValue(p, "app_id"),
     time_stamp |-> BTreeValue(p, "time_stamp"),
     nonce_str  |-> BTreeValue(p, "nonce_str"),
     image      |-> Str(b64),
     sign       |-> md5_hash]

ParamsAfterForm(p) ==
    BTreeRemove(BTreeRemove(BTreeRemove(p, "app_id"), "time_stamp"), "nonce_str")

-----------------------------------------------------------------------------
(* VerifierError and the results of the stages *)

Err(kind, payload) == [kind |-> kind, payload |-> payload]
Success == [kind |-> "Ok", payload |-> ""]

ParseFailure == Err("ApiServerError", "Failed to parse API server response.")

StatusText(status) ==
    CASE status = 200 -> "200 OK"
      [] status = 201 -> "201 Created"
      [] status = 204 -> "204 No Content"
      [] status = 404 -> "404 Not Found"
      [] status = 500 -> "500 Internal Server Error"

(* The and_then closure of api_request: Ok(body text) or Err(VerifierError) *)
(* Faulty variant: every 2xx status accepted *)
HandleResponseAnySuccess(status, readable, body) ==
    IF status \in 200..299
    THEN IF readable
         THEN [err |-> None, body |-> Some(body)]
         ELSE [err |-> Some(Err("ServerResponseError", "payload error")), body |-> None]
    ELSE [err  |-> Some(Err("ApiServerError", "Server response code " \o StatusText(status))),
          body |-> None]

HandleResponse(status, readable, body) ==
    IF status = 200
    THEN IF readable
         THEN [err |-> None, body |-> Some(body)]
         ELSE [err |-> Some(Err("ServerResponseError", "payload error")), body |-> None]
    ELSE [err  |-> Some(Err("ApiServerError", "Server response code " \o StatusText(status))),
          body |-> None]

(* serde_json::from_str::<ResponseParams>: every field is required and ret  *)
(* is a u64.                                                               *)
FromStr(text) ==
    IF text.json /\ text.ret # None /\ text.msg # None /\ text.data # None
       /\ text.ret[1] >= 0
    THEN Some([ret |-> text.ret[1], msg |-> text.msg[1], data |-> text.data[1]])
    ELSE None

(* Faulty variant: id_match starts false *)
IdMatchInitFalse(sid) == FALSE

IdMatchInit(sid) == sid = None

RECURSIVE ScanItems(_, _, _, _, _)
ScanItems(item_list, institute, sid, institute_match, id_match) ==
    IF item_list = << >>
    THEN [institute_match |-> institute_match, id_match |-> id_match]
    ELSE ScanItems(Tail(item_list), institute, sid,
                   institute_match \/ Head(item_list).itemstring = institute,
                   id_match \/ (sid # None /\ Head(item_list).itemstring = sid[1]))

(* Faulty variant: the member id checked first *)
DecideIdFirst(m) ==
    IF ~m.id_match THEN Err("StudentIdNotMatch", "")
    ELSE IF ~m.institute_match THEN Err("InstituteNotMatch", "")
    ELSE Success

Decide(m) ==
    IF ~m.institute_match THEN Err("InstituteNotMatch", "")
    ELSE IF ~m.id_match THEN Err("StudentIdNotMatch", "")
    ELSE Success

(* Faulty variant: ret not checked *)
RetRejectsIgnored(ret) == FALSE

RetRejects(ret) == ret # 0

(* The and_then closure of verify *)
Validate(text, institute, sid) ==
    LET ocr_result == FromStr(text)
    IN  IF ocr_result = None
        THEN [outcome |-> ParseFailure, scanned |-> FALSE]
        ELSE IF RetRejects(ocr_result[1].ret)
        THEN [outcome |-> Err("ServerResponseError", ocr_result[1].msg), scanned |-> FALSE]
        ELSE [outcome |-> Decide(ScanItems(ocr_result[1].data.item_list, institute, sid,
                                           FALSE, IdMatchInit(sid))),
              scanned |-> TRUE]

-----------------------------------------------------------------------------
(* The values the environment supplies *)

AppIds == { 1000001 }
AppKeys == { "key123", "s3cr=t&" }

ImageLens == { SizeLimit, SizeLimit + 1, 4 * ScaleBase }

Images ==
    { [len |-> l, decodable |-> d, width |-> 40, height |-> 30] :
        l \in ImageLens, d \in BOOLEAN }

(* Outputs of the JPEG encoder: each starts with the JFIF marker FF D8 FF E0 *)
JpegSamples == { << 255, 216, 255, 224 >>, << 255, 216, 255, 224, 15, 190 >> }

Institutes == { "Example University", "Other University" }
StudentIds == { None, Some("16340025") }
ItemStrings == { "Example University", "example university", "16340025" }

TimeStamps == { 1000 }
(* 30 characters drawn from 'a'..'z' *)
Nonces == { "abcdefghijklmnopqrstuvwxyzabcd", "zzzzzzzzzzzzzzzzzzzzzzzzzzzzzz" }

Statuses == { 200, 201, 404, 500 }

OcrItems == { [item |-> "x", itemstring |-> s] : s \in ItemStrings }
ItemLists == UNION { [1..n -> OcrItems] : n \in 0..MaxItems }

Garbage == [json |-> FALSE, ret |-> None, msg |-> None, data |-> None]

JsonBodies ==
    { [json |-> TRUE, ret |-> r, msg |-> m, data |-> d] :
        r \in { None, Some(-1), Some(0), Some(1001) },
        m \in { None, Some("ok"), Some("quota exceeded") },
        d \in { None } \cup { Some([angle |-> "0", item_list |-> l]) : l \in ItemLists } }

Bodies == { Garbage } \cup JsonBodies

World ==
    [images |-> Images, jpegs |-> JpegSamples, institutes |-> Institutes,
     sids |-> StudentIds, time_stamps |-> TimeStamps, nonces |-> Nonces,
     statuses |-> Statuses, bodies |-> Bodies]

(* A smaller environment for the runs with several calls in flight *)
SmallWorld ==
    [images |-> { i \in Images : i.len = SizeLimit },
     jpegs |-> { << 255, 216, 255, 224 >> },
     institutes |-> Institutes,
     sids |-> { Some("16340025") },
     time_stamps |-> TimeStamps,
     nonces |-> { "abcdefghijklmnopqrstuvwxyzabcd" },
     statuses |-> { 200, 500 },
     bodies |-> { b \in JsonBodies :
                    /\ b.msg = Some("quota exceeded") /\ b.data # None
                    /\ b.ret \in { Some(0), Some(1001) }
                    /\ b.data[1].item_list
                         \in { << >>,
                               << [item |-> "x", itemstring |-> "Example University"],
                                  [item |-> "x", itemstring |-> "16340025"] >> } }]

-----------------------------------------------------------------------------
(* Initial states: a constructed Verifier, no call started *)

NoImage == [len |-> 0, decodable |-> FALSE, width |-> 0, height |-> 0]

InitCalls(n) ==
    /\ config \in { [app_id |-> i, app_key |-> k] : i \in AppIds, k \in AppKeys }
    /\ pc = [c \in 1..n |-> "idle"]
    /\ input = [c \in 1..n |-> [image |-> NoImage, institute |-> "", sid |-> None]]
    /\ img = [c \in 1..n |-> None]
    /\ base64_image = [c \in 1..n |-> None]
    /\ signed_params = [c \in 1..n |-> << >>]
    /\ to_hash = [c \in 1..n |-> None]
    /\ params = [c \in 1..n |-> << >>]
    /\ form = [c \in 1..n |-> None]
    /\ wire = [c \in 1..n |-> << >>]
    /\ response = [c \in 1..n |-> None]
    /\ api_response = [c \in 1..n |-> None]
    /\ scanned = [c \in 1..n |-> FALSE]
    /\ outcome = [c \in 1..n |-> None]
    /\ stages = [c \in 1..n |-> << >>]
    /\ map = << >>
    /\ inserted = << >>
    /\ hashed = << >>
    /\ signs = << >>

Init == InitCalls(1)

InitConc == InitCalls(NumCalls)

Calls == DOMAIN pc

-----------------------------------------------------------------------------
(* verify *)

(* Each call owns its arguments and the copies its closure captures *)
(* Faulty variant: one slot shared by all calls *)
Shared(c) == 1

Own(c) == c

(* An Err ends the call: futures::future::err, or map_err skipping and_then *)
(* Faulty variant: a failed exchange sent again *)
PcAfterErrorRetry(stage) == IF stage = "ApiClient" THEN "send" ELSE "done"

PcAfterError(stage) == "done"

Verify(c, W) ==
    /\ pc[c] = "idle"
    /\ \E image \in W.images, institute \in W.institutes, sid \in W.sids :
         input' = [input EXCEPT ![Own(c)] =
                     [image |-> image, institute |-> institute, sid |-> sid]]
    /\ pc' = [pc EXCEPT ![c] = "prepare"]
    /\ UNCHANGED << config, img, base64_image, signed_params, to_hash, params, form,
                    wire, response, api_response, scanned, outcome, stages >>
    /\ UNCHANGED exampleVars

ImagePreparer(c, W) ==
    /\ pc[c] = "prepare"
    /\ stages' = [stages EXCEPT ![c] = Append(@, "ImagePreparer")]
    /\ IF ~input[c].image.decodable
       THEN /\ outcome' = [outcome EXCEPT ![c] = Some(Err("ImageDataError", "decode"))]
            /\ pc' = [pc EXCEPT ![c] = PcAfterError("ImagePreparer")]
            /\ UNCHANGED << img, base64_image >>
       ELSE /\ img' = [img EXCEPT ![c] = Some(Decoded(input[c].image))]
            /\ \/ /\ outcome' = [outcome EXCEPT ![c] =
                                   Some(Err("JpegEncodeError", "encode"))]
                  /\ pc' = [pc EXCEPT ![c] = PcAfterError("ImagePreparer")]
                  /\ UNCHANGED base64_image
               \/ /\ \E jpeg_data \in W.jpegs :
                       base64_image' = [base64_image EXCEPT ![c] =
                                          Some(Base64Encode(jpeg_data))]
                  /\ pc' = [pc EXCEPT ![c] = "sign"]
                  /\ UNCHANGED outcome
    /\ UNCHANGED << config, input, signed_params, to_hash, params, form, wire,
                    response, api_response, scanned >>
    /\ UNCHANGED exampleVars

RequestSigner(c, W) ==
    /\ pc[c] = "sign"
    /\ stages' = [stages EXCEPT ![c] = Append(@, "RequestSigner")]
    /\ \E time_stamp \in W.time_stamps, nonce_str \in W.nonces :
         LET p == BuildParams(config.app_id, config.app_key, time_stamp, nonce_str,
                              base64_image[c][1])
             md5_hash == get_sign_hash(config.app_key, p)
         IN  /\ signed_params' = [signed_params EXCEPT ![c] = p]
             /\ to_hash' = [to_hash EXCEPT ![c] = Some(ToHash(config.app_key, p))]
             /\ form' = [form EXCEPT ![c] = Some(BuildForm(p, base64_image[c][1], md5_hash))]
             /\ params' = [params EXCEPT ![c] = ParamsAfterForm(p)]
    /\ pc' = [pc EXCEPT ![c] = "send"]
    /\ UNCHANGED << config, input, img, base64_image, wire, response, api_response,
                    scanned, outcome >>
    /\ UNCHANGED exampleVars

ApiSend(c) ==
    /\ pc[c] = "send"
    /\ stages' = [stages EXCEPT ![c] = Append(@, "ApiClient")]
    /\ wire' = [wire EXCEPT ![c] = Append(@, form[c][1])]
    /\ pc' = [pc EXCEPT ![c] = "await"]
    /\ UNCHANGED << config, input, img, base64_image, signed_params, to_hash, params,
                    form, response, api_response, scanned, outcome >>
    /\ UNCHANGED exampleVars

ApiTransportError(c) ==
    /\ pc[c] = "await"
    /\ response' = [response EXCEPT ![c] = Some([transport |-> FALSE, status |-> 0,
                                                  readable |-> FALSE, body |-> Garbage])]
    /\ outcome' = [outcome EXCEPT ![c] = Some(Err("ApiServerConnectionError", "send"))]
    /\ pc' = [pc EXCEPT ![c] = PcAfterError("ApiClient")]
    /\ UNCHANGED << config, input, img, base64_image, signed_params, to_hash, params,
                    form, wire, api_response, scanned, stages >>
    /\ UNCHANGED exampleVars

ApiRespond(c, W) ==
    /\ pc[c] = "await"
    /\ \E status \in W.statuses, readable \in BOOLEAN, body \in W.bodies :
         LET r == HandleResponse(status, readable, body)
         IN  /\ response' = [response EXCEPT ![c] =
                               Some([transport |-> TRUE, status |-> status,
                                     readable |-> readable, body |-> body])]
             /\ IF r.err # None
                THEN /\ outcome' = [outcome EXCEPT ![c] = r.err]
                     /\ pc' = [pc EXCEPT ![c] = PcAfterError("ApiClient")]
                     /\ UNCHANGED api_response
                ELSE /\ api_response' = [api_response EXCEPT ![c] = r.body]
                     /\ pc' = [pc EXCEPT ![c] = "validate"]
                     /\ UNCHANGED outcome
    /\ UNCHANGED << config, input, img, base64_image, signed_params, to_hash, params,
                    form, wire, scanned, stages >>
    /\ UNCHANGED exampleVars

ResponseValidator(c) ==
    /\ pc[c] = "validate"
    /\ stages' = [stages EXCEPT ![c] = Append(@, "ResponseValidator")]
    /\ LET v == Validate(api_response[c][1], input[c].institute, input[c].sid)
       IN  /\ outcome' = [outcome EXCEPT ![c] = Some(v.outcome)]
           /\ scanned' = [scanned EXCEPT ![c] = v.scanned]
    /\ pc' = [pc EXCEPT ![c] = "done"]
    /\ UNCHANGED << config, input, img, base64_image, signed_params, to_hash, params,
                    form, wire, response, api_response >>
    /\ UNCHANGED exampleVars

Next ==
    \/ \E c \in Calls : Verify(c, World)
    \/ \E c \in Calls : ImagePreparer(c, World)
    \/ \E c \in Calls : RequestSigner(c, World)
    \/ \E c \in Calls : ApiSend(c)
    \/ \E c \in Calls : ApiTransportError(c)
    \/ \E c \in Calls : ApiRespond(c, World)
    \/ \E c \in Calls : ResponseValidator(c)

NextConc ==
    \/ \E c \in Calls : Verify(c, SmallWorld)
    \/ \E c \in Calls : ImagePreparer(c, SmallWorld)
    \/ \E c \in Calls : RequestSigner(c, SmallWorld)
    \/ \E c \in Calls : ApiSend(c)
    \/ \E c \in Calls : ApiTransportError(c)
    \/ \E c \in Calls : ApiRespond(c, SmallWorld)
    \/ \E c \in Calls : ResponseValidator(c)

Spec == Init /\ [][Next]_vars

SpecConc == InitConc /\ [][NextConc]_vars

-----------------------------------------------------------------------------
(* examples/hash.rs: build a BTreeMap by inserts, then call get_sign_hash *)

ParamKeys == { "app_id", "time_stamp", "nonce_str", "image" }

ParamValues(k) ==
    CASE k = "app_id"     -> { to_string(1000001) }
      [] k = "time_stamp" -> { to_string(1000), to_string(1573000000) }
      [] k = "nonce_str"  -> { "abc", "a=b&c" }
      [] k = "image"      -> { "img", Str(UrlEncode(Base64Encode(<< 255, 216, 255, 224 >>))) }

MapInsert(k, v) ==
    /\ hashed = << >>
    /\ Len(inserted) < MaxInserts
    /\ map' = BTreeInsert(map, k, v)
    /\ inserted' = Append(inserted, k)
    /\ UNCHANGED << hashed, signs, config >>
    /\ UNCHANGED callVars

SignHash ==
    /\ Len(hashed) < MaxSigns
    /\ hashed' = Append(hashed, ToHash(config.app_key, map))
    /\ signs' = Append(signs, get_sign_hash(config.app_key, map))
    /\ UNCHANGED << map, inserted, config >>
    /\ UNCHANGED callVars

NextSign ==
    \/ \E k \in ParamKeys : \E v \in ParamValues(k) : MapInsert(k, v)
    \/ SignHash

SpecSign == Init /\ [][NextSign]_vars

-----------------------------------------------------------------------------
(* Properties *)

Done(c) == pc[c] = "done"

Body(c) == api_response[c][1]

HasItem(item_list, s) == \E i \in 1..Len(item_list) : item_list[i].itemstring = s

(* The outcome of matching, stated over the items rather than by the loop *)
MatchOutcome(item_list, institute, sid) ==
    IF ~HasItem(item_list, institute) THEN Err("InstituteNotMatch", "")
    ELSE IF sid # None /\ ~HasItem(item_list, sid[1]) THEN Err("StudentIdNotMatch", "")
    ELSE Success

(* C1: a response that parses and has ret = 0 is decided by exact string    *)
(* equality of some item with the claimed institute, then with the claimed *)
(* member id: InstituteNotMatch, else StudentIdNotMatch, else success.     *)
C1_MatchDecision ==
    \A c \in Calls :
        (Done(c) /\ api_response[c] # None /\ FromStr(Body(c)) # None
                 /\ Body(c).ret = Some(0))
        => /\ scanned[c]
           /\ outcome[c] = Some(MatchOutcome(Body(c).data[1].item_list,
                                             input[c].institute, input[c].sid))

(* Neither claim matches, and an item differs from the institute only by case *)
C1_Witness ==
    \E c \in Calls :
        /\ Done(c) /\ scanned[c]
        /\ input[c].institute = "Example University"
        /\ input[c].sid = Some("16340025")
        /\ Body(c).data[1].item_list = << [item |-> "x", itemstring |-> "example university"] >>
        /\ outcome[c] = Some(Err("InstituteNotMatch", ""))

(* C2 as stated: every body carrying a nonzero integer ret and a msg ends   *)
(* the call with ServerResponseError(msg), without the scan.               *)
C2_AnyNonzeroRet ==
    \A c \in Calls :
        (Done(c) /\ api_response[c] # None /\ Body(c).json
                 /\ Body(c).ret # None /\ Body(c).ret # Some(0) /\ Body(c).msg # None)
        => /\ outcome[c] = Some(Err("ServerResponseError", Body(c).msg[1]))
           /\ ~scanned[c]

(* C2 amended: a body that parses as ResponseParams and has ret # 0 ends    *)
(* the call with ServerResponseError(msg), without the scan.               *)
C2_ParsedNonzeroRet ==
    \A c \in Calls :
        (Done(c) /\ api_response[c] # None /\ FromStr(Body(c)) # None
                 /\ Body(c).ret # Some(0))
        => /\ outcome[c] = Some(Err("ServerResponseError", Body(c).msg[1]))
           /\ ~scanned[c]

C2_Witness ==
    \E c \in Calls :
        /\ Done(c)
        /\ api_response[c] # None
        /\ Body(c).ret = Some(1001)
        /\ Body(c).data # None /\ Body(c).data[1].item_list # << >>
        /\ outcome[c] = Some(Err("ServerResponseError", "quota exceeded"))

EscapeChar(ch) ==
    CASE ch = "=" -> "%3D"
      [] ch = "+" -> "%2B"
      [] ch = "/" -> "%2F"
      [] OTHER    -> ch

Escaped(chars) == Str([i \in 1..Len(chars) |-> EscapeChar(chars[i])])

(* C3 as stated: the form's image field is the percent-escaped payload, the *)
(* value stored under the image key of the signed params.                  *)
C3_FormImageEscaped ==
    \A c \in Calls :
        form[c] # None
        => /\ form[c][1].image = Escaped(base64_image[c][1])
           /\ form[c][1].image = BTreeValue(signed_params[c], "image")

(* C3 amended: the form's image field is the base64 payload itself; the     *)
(* percent-escaped payload is the value under the image key of the signed  *)
(* params, and it is what every request sent carries unchanged.            *)
C3_FormImagePlain ==
    \A c \in Calls :
        form[c] # None
        => /\ form[c][1].image = Str(base64_image[c][1])
           /\ BTreeValue(signed_params[c], "image") = Escaped(base64_image[c][1])
           /\ \A i \in 1..Len(wire[c]) : wire[c][i].image = Str(base64_image[c][1])

C3_Witness ==
    \E c \in Calls :
        /\ Len(wire[c]) = 1
        /\ wire[c][1].image = "/9j/4A++"
        /\ BTreeValue(signed_params[c], "image") = "%2F9j%2F4A%2B%2B"

StageOrder == << "ImagePreparer", "RequestSigner", "ApiClient", "ResponseValidator" >>

IsPrefix(s, t) == Len(s) <= Len(t) /\ \A i \in 1..Len(s) : s[i] = t[i]

InStages(c, stage) == \E i \in 1..Len(stages[c]) : stages[c][i] = stage

ApiFailed(c) ==
    /\ response[c] # None
    /\ ~response[c][1].transport \/ response[c][1].status # 200 \/ ~response[c][1].readable

C4_StageInv ==
    \A c \in Calls :
        /\ IsPrefix(stages[c], StageOrder)
        /\ Len(wire[c]) <= 1
        /\ outcome[c] # None => Done(c)
        /\ (outcome[c] # None /\ outcome[c][1].kind \in { "ImageDataError", "JpegEncodeError" })
             => wire[c] = << >> /\ stages[c] = << "ImagePreparer" >>
        /\ (Done(c) /\ ApiFailed(c))
             => /\ ~InStages(c, "ResponseValidator")
                /\ ~scanned[c]
                /\ outcome[c][1].kind \in { "ApiServerConnectionError", "ApiServerError",
                                            "ServerResponseError" }

C4_Terminal ==
    \A c \in Calls :
        Done(c) => /\ pc'[c] = pc[c]
                   /\ outcome'[c] = outcome[c]
                   /\ wire'[c] = wire[c]
                   /\ stages'[c] = stages[c]

(* C4: the stages run in the order ImagePreparer, RequestSigner, ApiClient, *)
(* ResponseValidator; a failure is the call's terminal outcome and no later *)
(* stage runs; at most one request is sent per call.                       *)
C4_SequentialStages == [] C4_StageInv /\ [][C4_Terminal]_vars

C4_Witness ==
    \E c \in Calls :
        /\ Done(c)
        /\ outcome[c] = Some(Err("ApiServerConnectionError", "send"))
        /\ stages[c] = << "ImagePreparer", "RequestSigner", "ApiClient" >>
        /\ Len(wire[c]) = 1

SortedKeyOrder == << "app_id", "image", "nonce_str", "time_stamp" >>

RECURSIVE CanonicalPairs(_, _)
CanonicalPairs(order, m) ==
    IF order = << >> THEN << >>
    ELSE (IF Head(order) \in Keys(m)
          THEN << Head(order) \o "=" \o BTreeValue(m, Head(order)) >>
          ELSE << >>)
         \o CanonicalPairs(Tail(order), m)

CanonicalString(app_key, m) ==
    Join(Append(CanonicalPairs(SortedKeyOrder, m), "app_key=" \o app_key), "&")

LastInserted(k, v) ==
    /\ k \in Keys(map)
    /\ BTreeValue(map, k) = v

IsScenarioA ==
    /\ config.app_key = "key123"
    /\ Keys(map) = ParamKeys
    /\ LastInserted("app_id", "1000001")
    /\ LastInserted("time_stamp", "1000")
    /\ LastInserted("nonce_str", "abc")
    /\ LastInserted("image", "img")

(* C5: the string hashed is the key=value pairs in lexicographic key order  *)
(* joined by &, then app_key=<secret>, whatever the insertion order; every *)
(* repeated call hashes the same string and returns the same signature.    *)
C5_CanonicalString ==
    \A i \in 1..Len(hashed) :
        /\ Len(map) = Cardinality(Keys(map))
        /\ hashed[i] = CanonicalString(config.app_key, map)
        /\ signs[i] = Md5HexUpper(hashed[i])
        /\ hashed[i] = hashed[1] /\ signs[i] = signs[1]
        /\ IsScenarioA =>
             hashed[i] = "app_id=1000001&image=img&nonce_str=abc&time_stamp=1000&app_key=key123"

C5_Witness ==
    /\ IsScenarioA
    /\ inserted = << "time_stamp", "nonce_str", "image", "app_id" >>
    /\ Len(hashed) = 2
    /\ hashed[2] = "app_id=1000001&image=img&nonce_str=abc&time_stamp=1000&app_key=key123"

FormFields == { "app_id", "time_stamp", "nonce_str", "image", "sign" }

NoSecretIn(f) ==
    /\ DOMAIN f = FormFields
    /\ \A k \in DOMAIN f : f[k] # config.app_key

(* C6: the params passed to the signer hold exactly app_id, time_stamp,     *)
(* nonce_str and image; the secret key is only in the string hashed, never *)
(* a field or field value of the form built or of a request sent.          *)
C6_SecretNotTransmitted ==
    \A c \in Calls :
        /\ to_hash[c] # None
             => /\ Keys(signed_params[c]) = ParamKeys
                /\ Len(signed_params[c]) = 4
                /\ to_hash[c][1] = Join(Encoded(signed_params[c]), "&")
                                     \o "&app_key=" \o config.app_key
        /\ form[c] # None => NoSecretIn(form[c][1])
        /\ \A i \in 1..Len(wire[c]) : NoSecretIn(wire[c][i])

C6_Witness ==
    \E c \in Calls :
        /\ Len(wire[c]) = 1
        /\ to_hash[c] # None
        /\ wire[c][1].app_id = "1000001"
        /\ wire[c][1].sign = Md5HexUpper(to_hash[c][1])

(* C7: with no member id claimed the call never ends with StudentIdNotMatch *)
C7_NoIdNeverIdMismatch ==
    \A c \in Calls :
        (pc[c] # "idle" /\ input[c].sid = None)
        => outcome[c] # Some(Err("StudentIdNotMatch", ""))

C7_Witness ==
    \E c \in Calls :
        /\ Done(c) /\ scanned[c]
        /\ input[c].sid = None
        /\ ~HasItem(Body(c).data[1].item_list, "16340025")
        /\ outcome[c] = Some(Success)

ApiOutcomeIs(c, kind) == Done(c) /\ outcome[c][1].kind = kind /\ api_response[c] = None

(* C8 as stated: transport failure -> ApiServerConnectionError; a status    *)
(* outside 2xx -> ApiServerError with the code; a 2xx status -> the body   *)
(* text, or ServerResponseError when the body cannot be read.              *)
C8_SuccessStatusClass ==
    \A c \in Calls :
        response[c] # None
        => LET r == response[c][1]
           IN  /\ ~r.transport => ApiOutcomeIs(c, "ApiServerConnectionError")
               /\ (r.transport /\ r.status \notin 200..299)
                    => /\ ApiOutcomeIs(c, "ApiServerError")
                       /\ outcome[c][1].payload = "Server response code " \o StatusText(r.status)
               /\ (r.transport /\ r.status \in 200..299 /\ r.readable)
                    => api_response[c] = Some(r.body)
               /\ (r.transport /\ r.status \in 200..299 /\ ~r.readable)
                    => ApiOutcomeIs(c, "ServerResponseError")

(* C8 amended: transport failure -> ApiServerConnectionError; any status    *)
(* other than 200 OK -> ApiServerError with the code; status 200 -> the    *)
(* body text, or ServerResponseError when the body cannot be read.         *)
C8_OnlyStatusOk ==
    \A c \in Calls :
        response[c] # None
        => LET r == response[c][1]
           IN  /\ ~r.transport => ApiOutcomeIs(c, "ApiServerConnectionError")
               /\ (r.transport /\ r.status # 200)
                    => /\ ApiOutcomeIs(c, "ApiServerError")
                       /\ outcome[c][1].payload = "Server response code " \o StatusText(r.status)
               /\ (r.transport /\ r.status = 200 /\ r.readable)
                    => api_response[c] = Some(r.body)
               /\ (r.transport /\ r.status = 200 /\ ~r.readable)
                    => ApiOutcomeIs(c, "ServerResponseError")

C8_Witness ==
    \E c \in Calls :
        /\ response[c] # None
        /\ response[c][1].transport
        /\ response[c][1].status = 201
        /\ outcome[c] = Some(Err("ApiServerError", "Server response code 201 Created"))

(* C9: a decodable image is resized iff its byte length is strictly greater *)
(* than 1,048,576: at 1,048,576 it keeps its dimensions, at 1,048,577 it   *)
(* is resized.                                                             *)
C9_ResizeBoundary ==
    \A c \in Calls :
        img[c] # None
        => /\ img[c][1].resized <=> input[c].image.len > 1048576
           /\ input[c].image.len = 1048576
                => /\ img[c][1].width = input[c].image.width
                   /\ img[c][1].height = input[c].image.height
           /\ input[c].image.len = 1048577 => img[c][1].resized

C9_Witness ==
    \E c \in Calls :
        /\ input[c].image.len = 1048576
        /\ base64_image[c] # None
        /\ img[c] = Some([width |-> 40, height |-> 30, resized |-> FALSE])

(* What a call's result must be, given only its arguments and its response *)
ExpectedOutcome(c) ==
    IF ~input[c].image.decodable THEN Err("ImageDataError", "decode")
    ELSE IF base64_image[c] = None THEN Err("JpegEncodeError", "encode")
    ELSE LET r == response[c][1]
         IN  IF ~r.transport THEN Err("ApiServerConnectionError", "send")
             ELSE IF r.status # 200
             THEN Err("ApiServerError", "Server response code " \o StatusText(r.status))
             ELSE IF ~r.readable THEN Err("ServerResponseError", "payload error")
             ELSE IF FromStr(r.body) = None THEN ParseFailure
             ELSE IF r.body.ret # Some(0) THEN Err("ServerResponseError", r.body.msg[1])
             ELSE MatchOutcome(r.body.data[1].item_list, input[c].institute, input[c].sid)

C10_OwnResult == \A c \in Calls : Done(c) => outcome[c] = Some(ExpectedOutcome(c))

SameCall(d) ==
    /\ pc'[d] = pc[d] /\ input'[d] = input[d] /\ img'[d] = img[d]
    /\ base64_image'[d] = base64_image[d] /\ signed_params'[d] = signed_params[d]
    /\ to_hash'[d] = to_hash[d] /\ params'[d] = params[d] /\ form'[d] = form[d]
    /\ wire'[d] = wire[d] /\ response'[d] = response[d]
    /\ api_response'[d] = api_response[d] /\ scanned'[d] = scanned[d]
    /\ outcome'[d] = outcome[d] /\ stages'[d] = stages[d]

C10_Frame ==
    /\ config' = config
    /\ \E c \in Calls : \A d \in Calls \ { c } : SameCall(d)

(* C10: with several calls in flight, each call's result is determined by   *)
(* its own arguments and its own response; a step of one call changes no   *)
(* state of another call, and the Verifier's app_id and app_key never      *)
(* change.                                                                 *)
C10_Isolation == [] C10_OwnResult /\ [][C10_Frame]_vars

C10_Witness ==
    /\ Done(1) /\ Done(2)
    /\ input[1].institute = "Example University"
    /\ input[2].institute = "Other University"
    /\ response[1] = response[2]
    /\ outcome[1] = Some(Success)
    /\ outcome[2] = Some(Err("InstituteNotMatch", ""))

====
